---- MODULE Spec2Model ----
(***************************************************************************)
(* Embive (embedded RISC-V interpreter): the register file                 *)
(* (src/src/register.rs), the AUIPC instruction                            *)
(* (src/src/instruction/auipc.rs) and the system-call example of the crate *)
(* documentation (src/src/lib.rs).                                         *)
(*                                                                         *)
(* An i32 is a TLA+ integer in MinI32..MaxI32.  A u32 does not fit the     *)
(* model checker's integers, so it is held as two 16-bit limbs <<hi, lo>>  *)
(* standing for hi * 2^16 + lo; all u32 arithmetic wraps at 2^32.          *)
(***************************************************************************)
EXTENDS Integers, Sequences, FiniteSets, TLC

VARIABLES registers, program_counter, memory, config, op, res, prev, steps

vars == <<registers, program_counter, memory, config, op, res, prev, steps>>

----------------------------------------------------------------------------
(* Bounds *)

\* operations performed on one engine
MaxSteps == 3
\* largest register index handed to get / get_mut / AUIPC
MaxIndex == 33
\* instructions of the system-call machine
MaxSysSteps == 8

----------------------------------------------------------------------------
(* Machine integers *)

Half == 65536
HalfSign == 32768
MaxI32 == 2147483647
MinI32 == -2147483647 - 1

\* u32 from a small natural number
FromNat(n) == <<n \div Half, n % Half>>

\* `x as u32` for an i32 x: the same 32 bits
AsU32(x) == <<(x \div Half) % Half, x % Half>>

\* `u as i32` for a u32 u: the same 32 bits, read as two's complement
AsI32(u) == (IF u[1] >= HalfSign THEN u[1] - Half ELSE u[1]) * Half + u[2]

\* u32::wrapping_add
wrapping_add(a, b) ==
    LET lo == a[2] + b[2]
    IN  <<(a[1] + b[1] + (lo \div Half)) % Half, lo % Half>>

\* u32::wrapping_add_signed: self.wrapping_add(rhs as u32)
wrapping_add_signed(a, i) == wrapping_add(a, AsU32(i))

\* i32::wrapping_add, by sign cases
wrapping_add_i32(x, y) ==
    IF x >= 0 /\ y >= 0 /\ x > MaxI32 - y
        THEN (x - MaxI32 - 1) + (y - MaxI32 - 1)
    ELSE IF x < 0 /\ y < 0 /\ x < MinI32 - y
        THEN (x + MaxI32 + 1) + (y + MaxI32 + 1)
    ELSE x + y

----------------------------------------------------------------------------
(* Register file: src/src/register.rs *)

REGISTER_COUNT == 32

Slots == 0 .. (REGISTER_COUNT - 1)

\* Registers::new
Registers_new == [i \in Slots |-> 0]

\* Registers::reset
reset_skip_zero(inner) == [i \in Slots |-> IF i = 0 THEN inner[i] ELSE 0]
reset(inner) == [i \in Slots |-> 0]

\* the bounds check of get and get_mut
out_of_bounds_off_by_one(index) == index >= REGISTER_COUNT - 1
out_of_bounds(index) == index >= REGISTER_COUNT

\* results: Ok carries a value (and, for an instruction, the continuation
\* flag); Err carries the error kind
Ok(v) == [ok |-> TRUE, flag |-> TRUE, val |-> v, err |-> "none"]
OkFlag(f) == [ok |-> TRUE, flag |-> f, val |-> 0, err |-> "none"]
Err(e) == [ok |-> FALSE, flag |-> FALSE, val |-> 0, err |-> e]

\* Registers::get
get(inner, index) ==
    IF out_of_bounds(index) THEN Err("InvalidRegister") ELSE Ok(inner[index])

\* Registers::get_mut: the slot the reference points to, or the error
get_mut(inner, index) ==
    IF out_of_bounds(index) THEN Err("InvalidRegister") ELSE Ok(index)

----------------------------------------------------------------------------
(* AUIPC: src/src/instruction/auipc.rs *)

INSTRUCTION_SIZE == 4

\* the HINT test of execute
writes_rd_always(rd) == TRUE
writes_rd(rd) == rd # 0

\* the value stored into rd
auipc_value_next_pc(pc, imm) ==
    AsI32(wrapping_add_signed(wrapping_add(pc, FromNat(INSTRUCTION_SIZE)), imm))
auipc_value(pc, imm) == AsI32(wrapping_add_signed(pc, imm))

\* "Go to next instruction"
next_pc_unaligned(pc) == wrapping_add(pc, FromNat(INSTRUCTION_SIZE - 1))
next_pc_no_wrap(pc) ==
    IF pc[1] = Half - 1 /\ pc[2] + INSTRUCTION_SIZE >= Half
        THEN pc
        ELSE wrapping_add(pc, FromNat(INSTRUCTION_SIZE))
next_pc(pc) == wrapping_add(pc, FromNat(INSTRUCTION_SIZE))

\* Auipc::execute on an engine with registers inner and program counter pc
execute_pc_first(inner, pc, rd, imm) ==
    IF writes_rd(rd) /\ ~get_mut(inner, rd).ok
        THEN [registers |-> inner, program_counter |-> next_pc(pc),
              res |-> get_mut(inner, rd)]
    ELSE [registers |-> IF writes_rd(rd)
                            THEN [inner EXCEPT ![rd] = auipc_value(pc, imm)]
                            ELSE inner,
          program_counter |-> next_pc(pc),
          res |-> OkFlag(TRUE)]
execute_accumulate(inner, pc, rd, imm) ==
    IF writes_rd(rd) /\ ~get_mut(inner, rd).ok
        THEN [registers |-> inner, program_counter |-> pc,
              res |-> get_mut(inner, rd)]
    ELSE [registers |-> IF writes_rd(rd)
                            THEN [inner EXCEPT ![rd] =
                                    wrapping_add_i32(@, auipc_value(pc, imm))]
                            ELSE inner,
          program_counter |-> next_pc(pc),
          res |-> OkFlag(TRUE)]
execute(inner, pc, rd, imm) ==
    IF writes_rd(rd) /\ ~get_mut(inner, rd).ok
        THEN [registers |-> inner, program_counter |-> pc,
              res |-> get_mut(inner, rd)]
    ELSE [registers |-> IF writes_rd(rd)
                            THEN [inner EXCEPT
                                    ![get_mut(inner, rd).val] = auipc_value(pc, imm)]
                            ELSE inner,
          program_counter |-> next_pc(pc),
          res |-> OkFlag(TRUE)]

----------------------------------------------------------------------------
(* Inputs *)

Indices == 0 .. MaxIndex

\* destination registers of the AUIPC instructions executed
Rds == {0, 1, REGISTER_COUNT - 1} \cup (REGISTER_COUNT .. MaxIndex)

\* immediates: the two of the tests, zero and the two ends of the U-type range
Imms == {0, 4096, -4096, MaxI32 - 4095, MinI32}

\* program counters the host sets: the tests' 0x1 and RAM_OFFSET, and
\* addresses next to the 2^31 and 2^32 boundaries
RAM_OFFSET == <<HalfSign, 0>>
PCs == {<<0, 1>>, RAM_OFFSET, <<HalfSign - 1, Half - 1>>,
        <<Half - 1, Half - 4>>, <<Half - 1, Half - 1>>}

\* values the host stores through get_mut
HostValues == {-1, 7}
HostSlots == {0, 1, REGISTER_COUNT - 1, REGISTER_COUNT}

----------------------------------------------------------------------------
(* Hosts: the memory and configuration the engine is constructed with *)

\* the code of the crate example, lib.rs
ExampleCode ==
    << 147,   8,  32,   0,     \* li   a7, 2
        19,   5,  16,   0,     \* li   a0, 1
        19,  21, 245,   1,     \* slli a0, a0, 31
       115,   0,   0,   0,     \* ecall
       147,   8,  16,   0,     \* li   a7, 1
        19,   5,  64,   1,     \* li   a0, 20
       115,   0,   0,   0,     \* ecall
       115,   0,  16,   0 >>   \* ebreak

\* memory: the code slice, the length of the RAM slice and the bytes the
\* host stored at its start (the rest of the RAM is zero)
SliceMemory(code, ram_len, ram_head) ==
    [code |-> code, ram_len |-> ram_len, ram_head |-> ram_head]

\* SliceMemory::new(&[], &mut []) with Default::default(), auipc.rs tests
TestSetup ==
    [memory |-> SliceMemory(<<>>, 0, <<>>), config |-> [syscall_fn |-> FALSE]]

\* the crate example: 32 bytes of code, 1024 bytes of RAM starting with
\* u32::to_le_bytes(10), syscall_fn: Some(syscall)
ExampleSetup ==
    [memory |-> SliceMemory(ExampleCode, 1024, <<10, 0, 0, 0>>),
     config |-> [syscall_fn |-> TRUE]]

\* the crate example with the default configuration (no syscall function)
ExampleSetupNoSyscall ==
    [memory |-> ExampleSetup.memory, config |-> [syscall_fn |-> FALSE]]

Setups == {TestSetup, ExampleSetup}

----------------------------------------------------------------------------
(* The engine as a state machine *)

NoOp == [name |-> "new", index |-> 0, imm |-> 0]

Snapshot == [registers |-> registers, program_counter |-> program_counter]

\* Engine::new: zeroed registers, program counter 0
Init ==
    /\ \E s \in Setups : memory = s.memory /\ config = s.config
    /\ registers = Registers_new
    /\ program_counter = FromNat(0)
    /\ op = NoOp
    /\ res = OkFlag(TRUE)
    /\ prev = [registers |-> Registers_new, program_counter |-> FromNat(0)]
    /\ steps = 0

\* auipc.execute(&mut engine)
Execute(rd, imm) ==
    /\ steps < MaxSteps
    /\ LET r == execute(registers, program_counter, rd, imm)
       IN  /\ registers' = r.registers
           /\ program_counter' = r.program_counter
           /\ res' = r.res
    /\ op' = [name |-> "auipc", index |-> rd, imm |-> imm]
    /\ prev' = Snapshot
    /\ steps' = steps + 1
    /\ UNCHANGED <<memory, config>>

\* engine.program_counter = p
SetProgramCounter(p) ==
    /\ steps < MaxSteps
    /\ program_counter' = p
    /\ op' = [name |-> "set_pc", index |-> 0, imm |-> 0]
    /\ res' = OkFlag(TRUE)
    /\ prev' = Snapshot
    /\ steps' = steps + 1
    /\ UNCHANGED <<memory, config>>
    /\ UNCHANGED registers

\* engine.registers.reset()
Reset ==
    /\ steps < MaxSteps
    /\ registers' = reset(registers)
    /\ op' = [name |-> "reset", index |-> 0, imm |-> 0]
    /\ res' = OkFlag(TRUE)
    /\ prev' = Snapshot
    /\ steps' = steps + 1
    /\ UNCHANGED <<memory, config>>
    /\ UNCHANGED program_counter

\* engine.registers.get(index)
Get(index) ==
    /\ steps < MaxSteps
    /\ res' = get(registers, index)
    /\ op' = [name |-> "get", index |-> index, imm |-> 0]
    /\ prev' = Snapshot
    /\ steps' = steps + 1
    /\ UNCHANGED <<memory, config>>
    /\ UNCHANGED <<registers, program_counter>>

\* engine.registers.get_mut(index).map(|x| *x)
GetMut(index) ==
    /\ steps < MaxSteps
    /\ LET r == get_mut(registers, index)
       IN  res' = IF r.ok THEN Ok(registers[r.val]) ELSE r
    /\ op' = [name |-> "get_mut", index |-> index, imm |-> 0]
    /\ prev' = Snapshot
    /\ steps' = steps + 1
    /\ UNCHANGED <<memory, config>>
    /\ UNCHANGED <<registers, program_counter>>

\* *engine.registers.get_mut(index)? = v
HostWrite(index, v) ==
    /\ steps < MaxSteps
    /\ LET r == get_mut(registers, index)
       IN  /\ registers' = IF r.ok THEN [registers EXCEPT ![r.val] = v]
                                   ELSE registers
           /\ res' = IF r.ok THEN Ok(v) ELSE r
    /\ op' = [name |-> "write", index |-> index, imm |-> v]
    /\ prev' = Snapshot
    /\ steps' = steps + 1
    /\ UNCHANGED <<memory, config>>
    /\ UNCHANGED program_counter

Next ==
    \/ \E rd \in Rds, imm \in Imms : Execute(rd, imm)
    \/ \E p \in PCs : SetProgramCounter(p)
    \/ Reset
    \/ \E i \in Indices : Get(i)
    \/ \E i \in Indices : GetMut(i)

Spec == Init /\ [][Next]_vars

NextHost ==
    \/ Next
    \/ \E i \in HostSlots, v \in HostValues : HostWrite(i, v)

SpecHost == Init /\ [][NextHost]_vars

----------------------------------------------------------------------------
(* The crate example, lib.rs: a guest that makes system calls *)

A0 == 10
A1 == 11
A7 == 17
SYSCALL_ARGS == 6

\* i32::from_le_bytes
from_le_bytes(b) ==
    b[1] + 256 * b[2] + 65536 * b[3]
        + 16777216 * (IF b[4] >= 128 THEN b[4] - 256 ELSE b[4])

\* the byte at offset k of the RAM slice
ram_byte(mem, k) == IF k < Len(mem.ram_head) THEN mem.ram_head[k + 1] ELSE 0

\* Memory::load::<4>(addr): the four bytes lie in the code slice (from
\* address 0) or in the RAM slice (from RAM_OFFSET), else InvalidMemory
load(mem, addr) ==
    IF addr[1] = 0 /\ addr[2] + 4 <= Len(mem.code)
        THEN Ok(from_le_bytes([k \in 1 .. 4 |-> mem.code[addr[2] + k]]))
    ELSE IF addr[1] = RAM_OFFSET[1] /\ addr[2] + 4 <= mem.ram_len
        THEN Ok(from_le_bytes([k \in 1 .. 4 |-> ram_byte(mem, addr[2] + k - 1)]))
    ELSE Err("InvalidMemory")

\* whether x + y leaves the i32 range
add_overflows(x, y) ==
    \/ x >= 0 /\ y >= 0 /\ x > MaxI32 - y
    \/ x < 0 /\ y < 0 /\ x < MinI32 - y

\* what the host function returns
SysOk(v) == [kind |-> "Ok", val |-> v]
SysErr(e) == [kind |-> "Err", val |-> e]
SysPanic == [kind |-> "panic", val |-> 0]

\* fn syscall(nr, args, memory) of the example: the set of its outcomes.
\* args[0] + args[1] panics on overflow when overflow checks are compiled
\* in and wraps when they are not.
syscall(nr, args, mem) ==
    CASE nr = 1 ->
            IF add_overflows(args[1], args[2])
                THEN {SysPanic, SysOk(wrapping_add_i32(args[1], args[2]))}
                ELSE {SysOk(args[1] + args[2])}
      [] nr = 2 ->
            LET val == load(mem, AsU32(args[1]))
            IN  IF val.ok THEN {SysOk(val.val)} ELSE {SysErr(1)}
      [] OTHER -> {SysErr(2)}

\* the pair <<A0, A1>> the engine stores for a successful call: the example
\* ends with A0 = 0 and A1 = 30 after a call that returned Ok(30)
ecall_ok_value_first(v) == <<v, 0>>
ecall_ok(v) == <<0, v>>

\* the pairs <<A0, A1>> the engine may store for a failed call: the error in
\* one register and 0 in the other
ecall_err(e) == {<<e, 0>>, <<0, e>>}

\* the engine of the example
InitSys ==
    /\ \E s \in {ExampleSetup, ExampleSetupNoSyscall} :
            memory = s.memory /\ config = s.config
    /\ registers = Registers_new
    /\ program_counter = FromNat(0)
    /\ op = NoOp
    /\ res = OkFlag(TRUE)
    /\ prev = [registers |-> Registers_new, program_counter |-> FromNat(0)]
    /\ steps = 0

Running == steps < MaxSysSteps /\ res.err # "panic"

\* li rd, v
Li(rd, v) ==
    /\ Running
    /\ registers' = IF writes_rd(rd) THEN [registers EXCEPT ![rd] = v]
                                     ELSE registers
    /\ program_counter' = next_pc(program_counter)
    /\ op' = [name |-> "li", index |-> rd, imm |-> v]
    /\ res' = OkFlag(TRUE)
    /\ prev' = Snapshot
    /\ steps' = steps + 1
    /\ UNCHANGED <<memory, config>>

\* slli rd, rd, 31
Slli31(rd) ==
    /\ Running
    /\ registers' = IF writes_rd(rd)
                        THEN [registers EXCEPT
                                ![rd] = IF @ % 2 = 1 THEN MinI32 ELSE 0]
                        ELSE registers
    /\ program_counter' = next_pc(program_counter)
    /\ op' = [name |-> "slli", index |-> rd, imm |-> 31]
    /\ res' = OkFlag(TRUE)
    /\ prev' = Snapshot
    /\ steps' = steps + 1
    /\ UNCHANGED <<memory, config>>

\* ecall
Ecall ==
    /\ Running
    /\ IF ~config.syscall_fn
        THEN /\ res' = Err("NoSyscallFunction")
             /\ op' = [name |-> "ecall", index |-> 0, imm |-> 0]
             /\ UNCHANGED <<registers, program_counter>>
        ELSE \E r \in syscall(registers[A7],
                              [k \in 1 .. SYSCALL_ARGS |-> registers[A0 + k - 1]],
                              memory) :
                IF r.kind = "panic"
                    THEN /\ res' = Err("panic")
                         /\ op' = [name |-> "ecall", index |-> 0, imm |-> 0]
                         /\ UNCHANGED <<registers, program_counter>>
                    ELSE \E out \in (IF r.kind = "Ok" THEN {ecall_ok(r.val)}
                                                      ELSE ecall_err(r.val)) :
                            /\ registers' = [registers EXCEPT ![A0] = out[1],
                                                              ![A1] = out[2]]
                            /\ program_counter' = next_pc(program_counter)
                            /\ res' = OkFlag(TRUE)
                            /\ op' = [name |-> IF r.kind = "Ok" THEN "ecall_ok"
                                                                ELSE "ecall_err",
                                      index |-> 0, imm |-> r.val]
    /\ prev' = Snapshot
    /\ steps' = steps + 1
    /\ UNCHANGED <<memory, config>>

\* ebreak
Ebreak ==
    /\ Running
    /\ op' = [name |-> "ebreak", index |-> 0, imm |-> 0]
    /\ res' = OkFlag(FALSE)
    /\ prev' = Snapshot
    /\ steps' = steps + 1
    /\ UNCHANGED <<registers, program_counter, memory, config>>

LiRegs == {A0, A7}
LiValues == {1, 2, 3, 20}

NextSys ==
    \/ \E rd \in LiRegs, v \in LiValues : Li(rd, v)
    \/ Slli31(A0)
    \/ Ecall
    \/ Ebreak

SpecSys == InitSys /\ [][NextSys]_vars

----------------------------------------------------------------------------
(* Properties *)

\* the operation that led to the current state
IsAuipc == op.name = "auipc"
ValidRd == 1 .. 31

\* a u32 is a multiple of 2
IsEven(u) == u[2] % 2 = 0

\* a u32 address lies in the code region or in the RAM region
InMemory(mem, u) ==
    \/ u[1] = 0 /\ u[2] < Len(mem.code)
    \/ u[1] = RAM_OFFSET[1] /\ u[2] < mem.ram_len

\* C1: AUIPC with rd in 1..31 stores (PC + imm) mod 2^32, read as an i32,
\* into rd, PC being the program counter before the instruction; with
\* imm = 0 the stored word is the PC itself.
C1_AuipcStoresPcPlusImm ==
    (IsAuipc /\ op.index \in ValidRd) =>
        /\ registers[op.index]
                = wrapping_add_i32(AsI32(prev.program_counter), op.imm)
        /\ registers[op.index] \in MinI32 .. MaxI32
        /\ op.imm = 0 => AsU32(registers[op.index]) = prev.program_counter

\* the negative-immediate test: PC = 1, imm = -0x1000, rd = 1 holds -0xfff
C1_Witness ==
    /\ IsAuipc /\ op.index = 1 /\ op.imm = -4096
    /\ prev.program_counter = <<0, 1>>
    /\ registers[1] = -4095

\* C2: AUIPC with rd in 0..31 returns Ok(true) and leaves the program
\* counter at (PC + 4) mod 2^32, whatever imm and the registers are.
C2_AuipcAdvancesPc ==
    (IsAuipc /\ op.index \in 0 .. 31) =>
        /\ res = OkFlag(TRUE)
        /\ program_counter
                = AsU32(wrapping_add_i32(AsI32(prev.program_counter), 4))

\* PC = 2^32 - 4 wraps to 0
C2_Witness ==
    /\ IsAuipc /\ op.index \in 0 .. 31 /\ op.imm # 0
    /\ prev.program_counter = <<Half - 1, Half - 4>>
    /\ program_counter = <<0, 0>>
    /\ res.flag

\* C3: from a new engine, after any sequence of AUIPC executions and
\* register resets, get(0) returns 0.
C3_RegisterZeroReadsZero == get(registers, 0) = Ok(0)

\* an AUIPC with rd = 0 whose PC + imm is not 0 has executed
C3_Witness ==
    /\ IsAuipc /\ op.index = 0 /\ res.ok
    /\ auipc_value(prev.program_counter, op.imm) # 0
    /\ get(registers, 0) = Ok(0)

\* C4: AUIPC with rd = 0 leaves all 32 register slots as they were; only
\* the program counter changes.
C4_HintKeepsRegisters ==
    (IsAuipc /\ op.index = 0) =>
        /\ \A i \in 0 .. 31 : registers[i] = prev.registers[i]
        /\ program_counter # prev.program_counter

\* a HINT executed on registers that hold non-zero values
C4_Witness ==
    /\ IsAuipc /\ op.index = 0
    /\ prev.registers[1] # 0 /\ prev.registers[31] # 0
    /\ registers = prev.registers
    /\ auipc_value(prev.program_counter, op.imm) # 0

\* C5 as stated: whenever the last instruction returned Ok(true), the
\* program counter is even and inside the code or RAM region.
C5_PcEvenAndInMemory ==
    (IsAuipc /\ res = OkFlag(TRUE)) =>
        IsEven(program_counter) /\ InMemory(memory, program_counter)

\* C5 amended: whenever the last AUIPC returned Ok(true), the program
\* counter has the parity of the program counter the instruction was
\* executed at, hence is even when that one was even.
C5_PcKeepsParity ==
    (IsAuipc /\ res = OkFlag(TRUE)) =>
        /\ IsEven(program_counter) <=> IsEven(prev.program_counter)
        /\ IsEven(prev.program_counter) => IsEven(program_counter)

\* AUIPC at an even PC returned Ok(true) and left an even PC outside memory
C5_Witness ==
    /\ IsAuipc /\ res = OkFlag(TRUE)
    /\ IsEven(prev.program_counter) /\ IsEven(program_counter)
    /\ ~InMemory(memory, program_counter)

\* C6: get(i) and get_mut(i) fail with InvalidRegister exactly when
\* i >= 32; for i in 0..31 both yield the value of slot i; get changes no
\* slot.
C6_GetBounds ==
    (op.name \in {"get", "get_mut"}) =>
        /\ res.ok <=> op.index \in 0 .. 31
        /\ ~res.ok <=> op.index >= 32
        /\ ~res.ok => res.err = "InvalidRegister"
        /\ res.ok => res.val = prev.registers[op.index]
        /\ op.name = "get" => \A i \in 0 .. 31 : registers[i] = prev.registers[i]

\* get(31) returned a value that was written before
C6_Witness ==
    /\ op.name = "get" /\ op.index = 31
    /\ res.ok /\ res.val # 0 /\ res.val = registers[31]

\* C7: a new register file holds 0 in all 32 slots, and so does the
\* register file after reset(), whatever was written before (slot 0
\* included); a second reset changes nothing.
C7_NewAndResetAreZero ==
    /\ op.name \in {"new", "reset"} => \A i \in 0 .. 31 : registers[i] = 0
    /\ op.name = "reset" => DOMAIN registers = 0 .. 31
    /\ (op.name = "reset" /\ \A i \in 0 .. 31 : prev.registers[i] = 0)
            => registers = prev.registers

\* reset() of a register file whose slots 0 and 31 were written
C7_Witness ==
    /\ op.name = "reset"
    /\ prev.registers[0] # 0 /\ prev.registers[31] # 0
    /\ \A i \in 0 .. 31 : registers[i] = 0

\* C8 as stated: after an ECALL whose host function returned Ok(v),
\* A0 = v and A1 = 0; after one that returned Err(e), A0 = 0 and A1 = e;
\* the engine continues.
C8_ValueThenError ==
    /\ op.name = "ecall_ok" =>
            registers[A0] = op.imm /\ registers[A1] = 0 /\ res = OkFlag(TRUE)
    /\ op.name = "ecall_err" =>
            registers[A0] = 0 /\ registers[A1] = op.imm /\ res = OkFlag(TRUE)

\* C8 amended: after an ECALL whose host function returned Ok(v), A0 = 0
\* and A1 = v, and the engine continues.
C8_ZeroThenValue ==
    op.name = "ecall_ok" =>
        /\ registers[A0] = 0
        /\ registers[A1] = op.imm
        /\ res = OkFlag(TRUE)

\* the end of the crate example: the second system call returned Ok(30)
C8_Witness ==
    /\ op.name = "ecall_ok" /\ op.imm = 30
    /\ prev.registers[A7] = 1 /\ prev.registers[A0] = 20
    /\ prev.registers[A1] = 10
    /\ registers[A0] = 0 /\ registers[A1] = 30
    /\ prev.program_counter = FromNat(24)

\* C9: AUIPC with rd >= 32 returns InvalidRegister and changes neither the
\* program counter nor any register.
C9_InvalidRdChangesNothing ==
    (IsAuipc /\ op.index >= 32) =>
        /\ res = Err("InvalidRegister")
        /\ program_counter = prev.program_counter
        /\ registers = prev.registers

\* AUIPC with rd = 32 failed at a PC the host had set
C9_Witness ==
    /\ IsAuipc /\ op.index = 32 /\ res.err = "InvalidRegister"
    /\ prev.program_counter = <<0, 1>>
    /\ program_counter = <<0, 1>>

\* C10: AUIPC with rd in 1..31 changes no slot other than rd, and the word
\* stored in rd is a function of the PC before the instruction and imm.
C10_OnlyRdChanges ==
    (IsAuipc /\ op.index \in ValidRd) =>
        /\ \A j \in (0 .. 31) \ {op.index} : registers[j] = prev.registers[j]
        /\ AsU32(registers[op.index])
                = wrapping_add(prev.program_counter, AsU32(op.imm))

\* rd and another slot held non-zero values before the instruction
C10_Witness ==
    /\ IsAuipc /\ op.index = 1
    /\ prev.registers[1] # 0 /\ prev.registers[31] # 0
    /\ registers[31] = prev.registers[31]
    /\ registers[1] # prev.registers[1]

====
